---------------------------- MODULE Spec2Model ----------------------------
(***************************************************************************)
(* Commit-context sidecar persistence and rewrite tracking.                *)
(*                                                                         *)
(*   post-commit-context.py   main(): the commit hook (collect, write the  *)
(*                            sidecar under flock, install the hook)       *)
(*                            install_post_rewrite_hook()                  *)
(*   post-rewrite-context.py  main(): the rewrite propagator               *)
(*                                                                         *)
(* Files are sequences of tokens.  A sidecar file holds the tokens that    *)
(* json.dump(..., indent=2) emits: an opening brace, one token per member  *)
(* (its key followed by the strings of its value), a closing brace and the *)
(* trailing newline.  A dict is the sequence of its members in insertion   *)
(* order.                                                                  *)
(***************************************************************************)
EXTENDS Integers, Sequences, FiniteSets, TLC

VARIABLES
    store,        \* commit-context/<project_id>/<sha>.json : file per sha
    ctxDir,       \* commit-context/<project_id> is a directory
    locks,        \* flock holder of each sidecar file
    hookFile,     \* <git-dir>/hooks/post-rewrite
    tasksDir,     \* ~/.claude/tasks
    clock,        \* readings of datetime.now() so far
    pc,           \* commit hook: position of each invocation
    event,        \* commit hook: the payload on stdin
    session,      \* commit hook: CLAUDE_SESSION_ID of the environment
    sha,          \* commit hook: git rev-parse HEAD
    sidecar,      \* commit hook: the dict built at lines 84-92
    flushed,      \* commit hook: tokens of fd already written to the file
    exitCode,     \* commit hook: exit status (-1 while running)
    ppc,          \* propagator: position
    stdin,        \* propagator: lines not yet read
    pair,         \* propagator: <<old_sha, new_sha>> of the current line
    old_data,     \* propagator: dict loaded from old_file
    pexit,        \* propagator: exit status (-1 while running)
    hist          \* history of the run, read by the properties only

vars == <<store, ctxDir, locks, hookFile, tasksDir, clock, pc, event, session,
          sha, sidecar, flushed, exitCode, ppc, stdin, pair, old_data, pexit,
          hist>>

fsVars   == <<store, ctxDir, locks>>
hookVars == <<pc, event, session, sha, sidecar, flushed, exitCode>>
propVars == <<ppc, stdin, pair, old_data, pexit>>

----------------------------------------------------------------------------
(* Bounds of the model *)

MaxInstallCalls == 3
MaxScriptLen == 3
MaxRaceLines == 1
MaxLines == 2
MaxTasks == 2

----------------------------------------------------------------------------
(* Generic helpers *)

RECURSIVE Count(_, _)
Count(x, s) ==
    IF s = <<>> THEN 0
    ELSE (IF Head(s) = x THEN 1 ELSE 0) + Count(x, Tail(s))

Contains(s, x) == \E i \in 1..Len(s) : s[i] = x

IsPrefix(s, t) == Len(s) <= Len(t) /\ SubSeq(t, 1, Len(s)) = s

SeqsUpTo(S, n) == UNION {[1..k -> S] : k \in 0..n}

----------------------------------------------------------------------------
(* Files *)

NoFile == [exists |-> FALSE, data |-> <<>>]
File(d) == [exists |-> TRUE, data |-> d]

----------------------------------------------------------------------------
(* install_post_rewrite_hook: the post-rewrite script is a sequence of     *)
(* text pieces; LF is the newline, OtherText any text without the marker.  *)

POST_REWRITE_MARKER == "# managed-by: post-commit-context"
hook_invocation == "python3 \"~/.claude/hooks/post-rewrite-context.py\" \"$@\""
Shebang == "#!/bin/sh"
LF == "LF"
OtherText == "other"

NoScript == [exists |-> FALSE, data |-> <<>>, exec |-> FALSE]

\* hook_file.write_text(f"#!/bin/sh\n{MARKER}\n{hook_invocation}") ; chmod +x
CreatedScript ==
    [exists |-> TRUE,
     data   |-> <<Shebang, LF, POST_REWRITE_MARKER, LF, hook_invocation, LF>>,
     exec   |-> TRUE]

\* f.write(f"\n{MARKER}\n{hook_invocation}") on a file opened with "a"
AppendedText == <<LF, POST_REWRITE_MARKER, LF, hook_invocation, LF>>

\* A marker test that never finds the marker
MarkerNeverFound(content) == TRUE

\* POST_REWRITE_MARKER not in content
MarkerAbsent(content) == ~Contains(content, POST_REWRITE_MARKER)

\* An installer that writes its own script over one that lacks the marker
install_overwriting(f, io) ==
    IF io = "oserror" THEN f
    ELSE IF ~f.exists \/ MarkerAbsent(f.data) THEN CreatedScript
    ELSE f

\* The script after one call; io = "oserror" is a call that raises OSError
\* (mkdir, open or read failing) before it changed anything.
install_post_rewrite_hook(f, io) ==
    IF io = "oserror" THEN f
    ELSE IF ~f.exists THEN CreatedScript
    ELSE IF MarkerAbsent(f.data)
         THEN [f EXCEPT !.data = f.data \o AppendedText]
         ELSE f

IoOutcomes == {"ok", "oserror"}

ScriptPieces == {Shebang, LF, POST_REWRITE_MARKER, hook_invocation, OtherText}

InitialScripts ==
    {NoScript} \cup
    {[exists |-> TRUE, data |-> d, exec |-> x] :
        d \in SeqsUpTo(ScriptPieces, MaxScriptLen), x \in BOOLEAN}

----------------------------------------------------------------------------
(* Python dicts and their JSON text *)

K_sha == "commit_sha"
K_ts == "timestamp"
K_root == "project_root"
K_pid == "project_id"
K_sess == "session_id"
K_refs == "task_references"
K_dumps == "task_dumps"
K_from == "rewritten_from"
K_by == "superseded_by"

LBrace == <<"{">>
RBrace == <<"}">>
Newline == <<LF>>
Nul == <<"NUL">>
Structural == {LBrace, RBrace, Newline, Nul}

KeyIndex(d, k) == CHOOSE i \in 1..Len(d) : d[i][1] = k
Has(d, k) == \E i \in 1..Len(d) : d[i][1] = k
\* d[k]: the strings of the value
Get(d, k) == Tail(d[KeyIndex(d, k)])
\* d.get(k): <<>> stands for None
GetOr(d, k) == IF Has(d, k) THEN Get(d, k) ELSE <<>>

\* d[k] = v : an existing key keeps its place, a new key goes last
SetItem(d, k, v) ==
    IF Has(d, k) THEN [d EXCEPT ![KeyIndex(d, k)] = <<k>> \o v]
    ELSE Append(d, <<k>> \o v)

\* json.dumps(d, indent=2)
json_dumps(d) == <<LBrace>> \o d \o <<RBrace>>

RECURSIVE FromMembers(_, _)
FromMembers(ms, acc) ==
    IF ms = <<>> THEN acc
    ELSE FromMembers(Tail(ms), SetItem(acc, Head(ms)[1], Tail(Head(ms))))

RECURSIVE StripRight(_)
StripRight(t) ==
    IF t # <<>> /\ t[Len(t)] = Newline THEN StripRight(SubSeq(t, 1, Len(t) - 1))
    ELSE t

RECURSIVE StripLeft(_)
StripLeft(t) ==
    IF t # <<>> /\ Head(t) = Newline THEN StripLeft(Tail(t)) ELSE t

\* json.loads(text): ok = FALSE is JSONDecodeError
json_loads(text) ==
    LET t == StripLeft(StripRight(text))
        n == Len(t)
        members == SubSeq(t, 2, n - 1)
    IN  IF /\ n >= 2
           /\ t[1] = LBrace
           /\ t[n] = RBrace
           /\ \A i \in 1..Len(members) : members[i] \notin Structural
        THEN [ok |-> TRUE, value |-> FromMembers(members, <<>>)]
        ELSE [ok |-> FALSE, value |-> <<>>]

\* The bytes of a file after writing buf at offset off (a gap reads as NULs)
WriteAt(data, off, buf) ==
    LET n == IF buf = <<>> \/ Len(data) > off + Len(buf) THEN Len(data)
             ELSE off + Len(buf)
    IN  [i \in 1..n |->
            IF i > off /\ i <= off + Len(buf) THEN buf[i - off]
            ELSE IF i <= Len(data) THEN data[i]
            ELSE Nul]

----------------------------------------------------------------------------
(* Identity and the task snapshot (post-commit-context.py, lines 54-92) *)

Toplevel == "/repo"
\* hashlib.sha256(toplevel.encode()).hexdigest()[:12]: twelve hex digits, a
\* different dozen for a different root
ProjectId(root) == IF root = Toplevel THEN "5e3f0c1a9b7d" ELSE "000000000000"

\* Lines 65-80 for one task file: acc = [refs, dumps, raised]
CollectFile(acc, team_name, f) ==
    IF acc.raised \/ f.kind \in {"malformed", "unreadable"} THEN acc
    ELSE
      LET ref == [task_id |-> f.stem, team_name |-> team_name]
          withRef == [acc EXCEPT !.refs = Append(acc.refs, ref)]
      IN  IF f.kind = "nonobject"
          THEN [withRef EXCEPT !.raised = TRUE]   \* data.get: AttributeError
          ELSE [withRef EXCEPT !.dumps = Append(acc.dumps,
                  [task_id |-> f.stem, team_name |-> team_name,
                   subject     |-> IF f.kind = "object" THEN "subject" ELSE "",
                   description |-> IF f.kind = "object" THEN "description" ELSE "",
                   status      |-> IF f.kind = "object" THEN "status" ELSE "",
                   owner       |-> IF f.kind = "object" THEN "owner" ELSE ""])]

RECURSIVE CollectFiles(_, _, _)
CollectFiles(acc, team_name, files) ==
    IF files = <<>> THEN acc
    ELSE CollectFiles(CollectFile(acc, team_name, Head(files)), team_name,
                      Tail(files))

RECURSIVE CollectTeams(_, _)
CollectTeams(acc, teams) ==
    IF teams = <<>> THEN acc
    ELSE CollectTeams(
            IF Head(teams).isdir
            THEN CollectFiles(acc, Head(teams).name, Head(teams).files)
            ELSE acc,
            Tail(teams))

\* Lines 56-80
CollectTasks(dir) ==
    LET empty == [refs |-> <<>>, dumps |-> <<>>, raised |-> FALSE]
    IN  IF dir.isdir THEN CollectTeams(empty, dir.teams) ELSE empty

RECURSIVE FlatRefs(_)
FlatRefs(refs) ==
    IF refs = <<>> THEN <<>>
    ELSE <<Head(refs).task_id, Head(refs).team_name>> \o FlatRefs(Tail(refs))

RECURSIVE FlatDumps(_)
FlatDumps(dumps) ==
    IF dumps = <<>> THEN <<>>
    ELSE <<Head(dumps).task_id, Head(dumps).team_name, Head(dumps).subject,
           Head(dumps).description, Head(dumps).status, Head(dumps).owner>>
         \o FlatDumps(Tail(dumps))

\* datetime.now(timezone.utc).astimezone().isoformat() at reading n of the clock
Isoformat(n) == ToString(n)

\* Lines 84-92
Sidecar(commit, now, root, sess, tasks) ==
    << <<K_sha, commit>>,
       <<K_ts, Isoformat(now)>>,
       <<K_root, root>>,
       <<K_pid, ProjectId(root)>>,
       <<K_sess, sess>>,
       <<K_refs>> \o FlatRefs(tasks.refs),
       <<K_dumps>> \o FlatDumps(tasks.dumps) >>

\* What json.dump(sidecar, fd, indent=2); fd.write("\n") hands to fd
Output(d) == json_dumps(d) \o <<Newline>>

----------------------------------------------------------------------------
(* The processes and what the properties remember of a run *)

Shas == {"A", "B", "C"}
Hooks == {"h1", "h2"}
NoHook == "none"

GitOutcomes == {"ok", "fail", "missing"}
EventKinds == {"malformed", "nonobject", "other", "commit"}

\* The record the file of a sha held when it first read as a complete record
NoteCreated(h, st) ==
    [h EXCEPT !.created =
        [s \in Shas |->
            IF h.created[s] = <<>> /\ json_loads(st[s].data).ok
            THEN json_loads(st[s].data).value
            ELSE h.created[s]]]

Hist0(script, st, lines) ==
    NoteCreated(
        [hook0     |-> script,
         installs  |-> 0,
         firstLock |-> [s \in Shas |-> NoHook],
         created   |-> [s \in Shas |-> <<>>],
         read      |-> [taken |-> FALSE, writing |-> FALSE, data |-> <<>>],
         pre       |-> st,
         applied   |-> FALSE,
         truncated |-> {},
         lost      |-> {},
         ioerror   |-> FALSE,
         entered   |-> FALSE,
         failed    |-> {},
         store0    |-> st,
         stdin0    |-> lines],
        st)

\* A hook invocation holds the file of s open for writing
Writing(h, s) ==
    pc[h] \in {"flock", "dump", "unlock", "close"} /\ sha[h] = s

----------------------------------------------------------------------------
(* post-commit-context.py main(), one action per step that touches the     *)
(* world outside the process                                               *)

Exit(h, code) ==
    /\ pc' = [pc EXCEPT ![h] = "done"]
    /\ exitCode' = [exitCode EXCEPT ![h] = code]

Goto(h, where) ==
    /\ pc' = [pc EXCEPT ![h] = where]
    /\ UNCHANGED exitCode

\* Lines 27-36
H_ReadEvent(h) ==
    /\ pc[h] = "start"
    /\ CASE event[h] = "malformed" -> Exit(h, 0)   \* JSONDecodeError, caught
         [] event[h] = "nonobject" -> Exit(h, 1)   \* event.get: AttributeError
         [] event[h] = "other"     -> Exit(h, 0)   \* "git commit" not in command
         [] OTHER                  -> Goto(h, "rev_parse")
    /\ UNCHANGED <<fsVars, hookFile, tasksDir, clock, event, session, sha,
                   sidecar, flushed, propVars, hist>>

\* Lines 39-44: git rev-parse HEAD
H_RevParseHead(h) ==
    /\ pc[h] = "rev_parse"
    /\ \E out \in GitOutcomes :
          CASE out = "fail"    -> Exit(h, 0) /\ UNCHANGED sha
            [] out = "missing" -> Exit(h, 1) /\ UNCHANGED sha \* FileNotFoundError
            [] OTHER -> \E s \in Shas :
                          /\ sha' = [sha EXCEPT ![h] = s]
                          /\ Goto(h, "toplevel")
    /\ UNCHANGED <<fsVars, hookFile, tasksDir, clock, event, session,
                   sidecar, flushed, propVars, hist>>

\* Lines 47-52: git rev-parse --show-toplevel
H_ShowToplevel(h) ==
    /\ pc[h] = "toplevel"
    /\ \E out \in GitOutcomes :
          CASE out = "fail"    -> Exit(h, 0)
            [] out = "missing" -> Exit(h, 1)
            [] OTHER           -> Goto(h, "collect")
    /\ UNCHANGED <<fsVars, hookFile, tasksDir, clock, event, session, sha,
                   sidecar, flushed, propVars, hist>>

\* Lines 54-92
H_Collect(h) ==
    /\ pc[h] = "collect"
    /\ LET tasks == CollectTasks(tasksDir)
       IN  IF tasks.raised
           THEN Exit(h, 1) /\ UNCHANGED <<sidecar, clock>>
           ELSE /\ sidecar' = [sidecar EXCEPT ![h] =
                       Sidecar(sha[h], clock, Toplevel, session[h], tasks)]
                /\ clock' = clock + 1
                /\ Goto(h, "mkdir")
    /\ UNCHANGED <<fsVars, hookFile, tasksDir, event, session, sha, flushed,
                   propVars, hist>>

\* Lines 95-97: out_dir.mkdir(parents=True, exist_ok=True), outside any try
H_Mkdir(h) ==
    /\ pc[h] = "mkdir"
    /\ \E io \in IoOutcomes :
          IF io = "ok" THEN ctxDir' = TRUE /\ Goto(h, "open")
          ELSE UNCHANGED ctxDir /\ Exit(h, 1)
    /\ UNCHANGED <<store, locks, hookFile, tasksDir, clock, event, session,
                   sha, sidecar, flushed, propVars, hist>>

\* Line 100: open(out_file, "w") creates the file or truncates it
H_Open(h) ==
    /\ pc[h] = "open"
    /\ \E io \in IoOutcomes :
          IF io = "ok"
          THEN /\ store' = [store EXCEPT ![sha[h]] = File(<<>>)]
               /\ flushed' = [flushed EXCEPT ![h] = 0]
               /\ hist' = [hist EXCEPT !.truncated =
                              IF store[sha[h]].data # <<>> THEN @ \cup {h}
                              ELSE @]
               /\ Goto(h, "flock")
          ELSE UNCHANGED <<store, flushed, hist>> /\ Exit(h, 0)
    /\ UNCHANGED <<ctxDir, locks, hookFile, tasksDir, clock, event, session,
                   sha, sidecar, propVars>>

\* A writer that goes on to the installer when the lock is taken
H_Flock_continuing(h) ==
    /\ pc[h] = "flock"
    /\ IF locks[sha[h]] = NoHook
       THEN /\ locks' = [locks EXCEPT ![sha[h]] = h]
            /\ hist' = [hist EXCEPT !.firstLock[sha[h]] =
                            IF @ = NoHook THEN h ELSE @]
            /\ Goto(h, "dump")
       ELSE /\ hist' = [hist EXCEPT !.lost = @ \cup {h}]
            /\ UNCHANGED locks
            /\ Goto(h, "git_dir")
    /\ UNCHANGED <<store, ctxDir, hookFile, tasksDir, clock, event, session,
                   sha, sidecar, flushed, propVars>>

\* Line 101: fcntl.flock(fd, LOCK_EX | LOCK_NB); BlockingIOError is caught
H_Flock(h) ==
    /\ pc[h] = "flock"
    /\ IF locks[sha[h]] = NoHook
       THEN /\ locks' = [locks EXCEPT ![sha[h]] = h]
            /\ hist' = [hist EXCEPT !.firstLock[sha[h]] =
                            IF @ = NoHook THEN h ELSE @]
            /\ Goto(h, "dump")
       ELSE /\ hist' = [hist EXCEPT !.lost = @ \cup {h}]
            /\ UNCHANGED locks
            /\ Exit(h, 0)
    /\ UNCHANGED <<store, ctxDir, hookFile, tasksDir, clock, event, session,
                   sha, sidecar, flushed, propVars>>

\* How much of the output has left the buffer of fd before fd.close(): none
\* of a record smaller than the buffer, a leading part of a larger one
FlushPoints(out) == {0, Len(out) \div 2}

\* Lines 102-103: json.dump and fd.write fill the buffer of fd; a record
\* larger than the buffer reaches the file in part, k tokens of it
H_Dump(h) ==
    /\ pc[h] = "dump"
    /\ \E k \in FlushPoints(Output(sidecar[h])) :
          /\ store' = [store EXCEPT ![sha[h]].data =
                          WriteAt(@, 0, SubSeq(Output(sidecar[h]), 1, k))]
          /\ flushed' = [flushed EXCEPT ![h] = k]
    /\ hist' = NoteCreated(hist, store')
    /\ Goto(h, "unlock")
    /\ UNCHANGED <<ctxDir, locks, hookFile, tasksDir, clock, event, session,
                   sha, sidecar, propVars>>

\* Line 104: fcntl.flock(fd, LOCK_UN)
H_Unlock(h) ==
    /\ pc[h] = "unlock"
    /\ locks' = [locks EXCEPT ![sha[h]] = NoHook]
    /\ Goto(h, "close")
    /\ UNCHANGED <<store, ctxDir, hookFile, tasksDir, clock, event, session,
                   sha, sidecar, flushed, propVars, hist>>

\* Line 105: fd.close() writes what the buffer still holds at fd's offset
H_Close(h) ==
    /\ pc[h] = "close"
    /\ LET out == Output(sidecar[h])
       IN  store' = [store EXCEPT ![sha[h]].data =
                        WriteAt(@, flushed[h],
                                SubSeq(out, flushed[h] + 1, Len(out)))]
    /\ flushed' = [flushed EXCEPT ![h] = Len(Output(sidecar[h]))]
    /\ hist' = NoteCreated(hist, store')
    /\ Goto(h, "git_dir")
    /\ UNCHANGED <<ctxDir, locks, hookFile, tasksDir, clock, event, session,
                   sha, sidecar, propVars>>

\* Lines 110-116: git rev-parse --git-dir; both exceptions are caught
H_GitDir(h) ==
    /\ pc[h] = "git_dir"
    /\ \E out \in GitOutcomes :
          IF out = "ok" THEN Goto(h, "install") ELSE Exit(h, 0)
    /\ UNCHANGED <<fsVars, hookFile, tasksDir, clock, event, session, sha,
                   sidecar, flushed, propVars, hist>>

\* Lines 114-118: install_post_rewrite_hook(Path(git_dir)); sys.exit(0)
H_Install(h) ==
    /\ pc[h] = "install"
    /\ \E io \in IoOutcomes :
          hookFile' = install_post_rewrite_hook(hookFile, io)
    /\ Exit(h, 0)
    /\ UNCHANGED <<fsVars, tasksDir, clock, event, session, sha, sidecar,
                   flushed, propVars, hist>>

HookStep(h) ==
    \/ H_ReadEvent(h)
    \/ H_RevParseHead(h)
    \/ H_ShowToplevel(h)
    \/ H_Collect(h)
    \/ H_Mkdir(h)
    \/ H_Open(h)
    \/ H_Flock(h)
    \/ H_Dump(h)
    \/ H_Unlock(h)
    \/ H_Close(h)
    \/ H_GitDir(h)
    \/ H_Install(h)

----------------------------------------------------------------------------
(* post-rewrite-context.py main() *)

Space == " "
\* line.strip().split()
Split(line) == SelectSeq(line, LAMBDA t : t # Space)

PExit(code) == ppc' = "done" /\ pexit' = code

\* The line in hand, counted from the first line of stdin
LineNo == Len(hist.stdin0) - Len(stdin)

\* Lines 61-62: the pair in hand raised; h is the history so far
Failed(h, io) ==
    [h EXCEPT !.failed = @ \cup {LineNo},
              !.ioerror = @ \/ io]

\* Lines 20-25: git rev-parse --show-toplevel
P_ShowToplevel ==
    /\ ppc = "start"
    /\ \E out \in GitOutcomes :
          CASE out = "fail"    -> PExit(0)
            [] out = "missing" -> PExit(1)          \* FileNotFoundError
            [] OTHER           -> ppc' = "isdir" /\ UNCHANGED pexit
    /\ UNCHANGED <<fsVars, hookFile, tasksDir, clock, hookVars, stdin, pair,
                   old_data, hist>>

\* Lines 27-31
P_IsDir ==
    /\ ppc = "isdir"
    /\ IF ctxDir
       THEN /\ ppc' = "next"
            /\ hist' = [hist EXCEPT !.entered = TRUE]
            /\ UNCHANGED pexit
       ELSE PExit(0) /\ UNCHANGED hist
    /\ UNCHANGED <<fsVars, hookFile, tasksDir, clock, hookVars, stdin, pair,
                   old_data>>

\* A loop that a line with fewer than two tokens ends
P_NextLine_stopping ==
    /\ ppc = "next"
    /\ IF stdin = <<>> \/ Len(Split(Head(stdin))) < 2
       THEN PExit(0) /\ UNCHANGED <<stdin, pair, hist>>
       ELSE /\ stdin' = Tail(stdin)
            /\ UNCHANGED pexit
            /\ pair' = <<Split(Head(stdin))[1], Split(Head(stdin))[2]>>
            /\ ppc' = "exists"
            /\ hist' = [hist EXCEPT !.pre = store, !.applied = FALSE]
    /\ UNCHANGED <<fsVars, hookFile, tasksDir, clock, hookVars, old_data>>

\* Lines 34-43 and 64: the next line of stdin, or the end of the run
P_NextLine ==
    /\ ppc = "next"
    /\ IF stdin = <<>>
       THEN PExit(0) /\ UNCHANGED <<stdin, pair, hist>>
       ELSE LET parts == Split(Head(stdin))
            IN  /\ stdin' = Tail(stdin)
                /\ UNCHANGED pexit
                /\ IF Len(parts) < 2
                   THEN UNCHANGED <<ppc, pair, hist>>
                   ELSE /\ pair' = <<parts[1], parts[2]>>
                        /\ ppc' = "exists"
                        /\ hist' = [hist EXCEPT !.pre = store,
                                                !.applied = FALSE]
    /\ UNCHANGED <<fsVars, hookFile, tasksDir, clock, hookVars, old_data>>

\* A test that takes a missing old record for an empty one
P_Exists_or_empty ==
    /\ ppc = "exists"
    /\ IF store[pair[1]].exists
       THEN ppc' = "read" /\ UNCHANGED old_data
       ELSE ppc' = "write_new" /\ old_data' = <<>>
    /\ UNCHANGED <<fsVars, hookFile, tasksDir, clock, hookVars, stdin, pair,
                   pexit, hist>>

\* Lines 45-46: old_file.exists()
P_Exists ==
    /\ ppc = "exists"
    /\ ppc' = IF store[pair[1]].exists THEN "read" ELSE "next"
    /\ UNCHANGED <<fsVars, hookFile, tasksDir, clock, hookVars, stdin, pair,
                   old_data, pexit, hist>>

\* Line 49: json.loads(old_file.read_text()), no lock taken
P_Read ==
    /\ ppc = "read"
    /\ \E io \in IoOutcomes :
          LET text == store[pair[1]].data
              got == json_loads(text)
          IN  IF io = "ok"
              THEN /\ hist' = [(IF got.ok THEN hist ELSE Failed(hist, FALSE))
                               EXCEPT !.read =
                          [taken   |-> TRUE,
                           writing |-> \E h \in Hooks : Writing(h, pair[1]),
                           data    |-> text]]
                   /\ IF got.ok
                      THEN old_data' = got.value /\ ppc' = "write_new"
                      ELSE UNCHANGED old_data /\ ppc' = "next"
              ELSE /\ hist' = Failed(hist, TRUE)
                   /\ UNCHANGED old_data
                   /\ ppc' = "next"
    /\ UNCHANGED <<fsVars, hookFile, tasksDir, clock, hookVars, stdin, pair,
                   pexit>>

\* A copy that is not told where it came from
NewData_without_origin(old, old_sha, new_sha) ==
    SetItem(old, K_sha, <<new_sha>>)

\* A copy that keeps the origin its source already named
NewData_keeping_origin(old, old_sha, new_sha) ==
    IF Has(old, K_from) THEN SetItem(old, K_sha, <<new_sha>>)
    ELSE SetItem(SetItem(old, K_sha, <<new_sha>>), K_from, <<old_sha>>)

\* A copy that keeps the commit id of its source
NewData_keeping_sha(old, old_sha, new_sha) ==
    SetItem(old, K_from, <<old_sha>>)

\* Lines 52-54
NewData(old, old_sha, new_sha) ==
    SetItem(SetItem(old, K_sha, <<new_sha>>), K_from, <<old_sha>>)

\* Line 58
Superseded(old, new_sha) == SetItem(old, K_by, <<new_sha>>)

\* path.write_text(json.dumps(d, indent=2) + "\n")
WriteText(st, s, d) == [st EXCEPT ![s] = File(json_dumps(d) \o <<Newline>>)]

\* Lines 52-55
P_WriteNew ==
    /\ ppc = "write_new"
    /\ \E io \in IoOutcomes :
          IF io = "ok"
          THEN /\ store' = WriteText(store, pair[2],
                                     NewData(old_data, pair[1], pair[2]))
               /\ hist' = NoteCreated(hist, store')
               /\ ppc' = "write_old"
          ELSE /\ hist' = Failed(hist, TRUE)
               /\ UNCHANGED store
               /\ ppc' = "next"
    /\ UNCHANGED <<ctxDir, locks, hookFile, tasksDir, clock, hookVars, stdin,
                   pair, old_data, pexit>>

\* Lines 58-59
P_WriteOld ==
    /\ ppc = "write_old"
    /\ old_data' = Superseded(old_data, pair[2])
    /\ \E io \in IoOutcomes :
          IF io = "ok"
          THEN /\ store' = WriteText(store, pair[1], old_data')
               /\ hist' = [NoteCreated(hist, store') EXCEPT !.applied = TRUE]
          ELSE hist' = Failed(hist, TRUE) /\ UNCHANGED store
    /\ ppc' = "next"
    /\ UNCHANGED <<ctxDir, locks, hookFile, tasksDir, clock, hookVars, stdin,
                   pair, pexit>>

PropagatorStep ==
    \/ P_ShowToplevel
    \/ P_IsDir
    \/ P_NextLine
    \/ P_Exists
    \/ P_Read
    \/ P_WriteNew
    \/ P_WriteOld

----------------------------------------------------------------------------
(* A direct call of install_post_rewrite_hook *)

InstallCall ==
    /\ hist.installs < MaxInstallCalls
    /\ \E io \in IoOutcomes :
          /\ hookFile' = install_post_rewrite_hook(hookFile, io)
          /\ hist' = [hist EXCEPT !.installs =
                          IF io = "ok" THEN @ + 1 ELSE @]
    /\ UNCHANGED <<fsVars, tasksDir, clock, hookVars, propVars>>

----------------------------------------------------------------------------
(* Initial states *)

EmptyStore == [s \in Shas |-> NoFile]
NoTasks == [isdir |-> FALSE, teams |-> <<>>]

\* A record an earlier commit hook left for sha s
Committed(s) == File(Output(Sidecar(s, 0, Toplevel, "", CollectTasks(NoTasks))))

InitWith(script, st, dir, tasks, ev, se, lines, running, prop) ==
    /\ store = st
    /\ ctxDir = dir
    /\ locks = [s \in Shas |-> NoHook]
    /\ hookFile = script
    /\ tasksDir = tasks
    /\ clock = 1
    /\ pc = [h \in Hooks |-> IF h \in running THEN "start" ELSE "done"]
    /\ event = ev
    /\ session = se
    /\ sha = [h \in Hooks |-> ""]
    /\ sidecar = [h \in Hooks |-> <<>>]
    /\ flushed = [h \in Hooks |-> 0]
    /\ exitCode = [h \in Hooks |-> IF h \in running THEN -1 ELSE 0]
    /\ ppc = IF prop THEN "start" ELSE "done"
    /\ stdin = lines
    /\ pair = <<"", "">>
    /\ old_data = <<>>
    /\ pexit = IF prop THEN -1 ELSE 0
    /\ hist = Hist0(script, st, lines)

\* install_post_rewrite_hook called again and again on one hook directory
InitInstall ==
    \E script \in InitialScripts :
        InitWith(script, EmptyStore, FALSE, NoTasks,
                 [h \in Hooks |-> "commit"], [h \in Hooks |-> ""], <<>>,
                 {}, FALSE)

SpecInstall == InitInstall /\ [][InstallCall]_vars


\* Task stores: a team directory holding one task file of each kind, a stray
\* file among the teams, no directory at all
TaskFileKinds == {"object", "empty_object", "malformed", "unreadable", "nonobject"}
OneTask(kind) ==
    [isdir |-> TRUE,
     teams |-> << [name |-> "notes.txt", isdir |-> FALSE, files |-> <<>>],
                  [name |-> "team", isdir |-> TRUE,
                   files |-> << [stem |-> "1", kind |-> kind] >>] >>]

\* Commit hooks alone, racing for the sidecar files of one project
InitCommit ==
    \E ev \in [Hooks -> EventKinds],
       tasks \in {NoTasks} \cup {OneTask(k) : k \in TaskFileKinds} :
        InitWith(NoScript, EmptyStore, FALSE, tasks, ev,
                 [h \in Hooks |-> ""], <<>>, Hooks, FALSE)

NextCommit == \E h \in Hooks : HookStep(h)

SpecCommit == InitCommit /\ [][NextCommit]_vars

\* Task stores of one team with up to MaxTasks task files of every kind, in
\* the order glob("*.json") yields them, and a stray file among the teams
TeamOf(kinds) ==
    [name |-> "team", isdir |-> TRUE,
     files |-> [i \in 1..Len(kinds) |-> [stem |-> ToString(i), kind |-> kinds[i]]]]
TaskStores ==
    {NoTasks} \cup
    {[isdir |-> TRUE,
      teams |-> << [name |-> "notes.txt", isdir |-> FALSE, files |-> <<>>],
                   TeamOf(kinds) >>] : kinds \in SeqsUpTo(TaskFileKinds, MaxTasks)}

\* One commit hook over every task store
InitCollect ==
    \E tasks \in TaskStores, ev \in EventKinds :
        InitWith(NoScript, EmptyStore, FALSE, tasks,
                 [h \in Hooks |-> ev], [h \in Hooks |-> ""], <<>>,
                 {"h1"}, FALSE)

NextCollect == HookStep("h1")

SpecCollect == InitCollect /\ [][NextCollect]_vars


\* The lines git writes to the hook's stdin, and lines that are no pair
PairLine(o, n) == <<o, Space, n>>
Lines == {PairLine(o, n) : o \in Shas, n \in Shas} \cup {<<>>, <<"A">>}

\* A commit hook and a rewrite propagator running against one project, in
\* which an earlier commit hook may have left a record
Init ==
    \E ev \in {e \in [Hooks -> EventKinds] : e["h2"] = "commit"},
       tasks \in {NoTasks, OneTask("object"), OneTask("nonobject")},
       st \in {EmptyStore, [EmptyStore EXCEPT !["A"] = Committed("A")]},
       lines \in SeqsUpTo(Lines, MaxRaceLines) :
        InitWith(NoScript, st, st # EmptyStore, tasks, ev,
                 [h \in Hooks |-> ""], lines, {"h1"}, TRUE)

Next == (\E h \in Hooks : HookStep(h)) \/ PropagatorStep

Spec == Init /\ [][Next]_vars

\* The rewrite propagator alone, on a store that earlier commit hooks filled
CommittedStores ==
    {[s \in Shas |-> IF s \in S THEN Committed(s) ELSE NoFile] : S \in SUBSET Shas}

\* ... one of which may have left the file of C cut to nothing
LeftStores ==
    CommittedStores \cup {[st EXCEPT !["C"] = File(<<>>)] : st \in CommittedStores}

InitRewrite ==
    \E st \in LeftStores, lines \in SeqsUpTo(Lines, MaxLines) :
        InitWith(NoScript, st, st # EmptyStore, NoTasks,
                 [h \in Hooks |-> "commit"], [h \in Hooks |-> ""], lines,
                 {}, TRUE)

SpecRewrite == InitRewrite /\ [][PropagatorStep]_vars

----------------------------------------------------------------------------
(* post-rewrite-context.py, lines 34-62, as a function of the store: what  *)
(* a run leaves when no call fails                                         *)

ApplyPair(st, old_sha, new_sha) ==
    IF ~st[old_sha].exists \/ ~json_loads(st[old_sha].data).ok THEN st
    ELSE LET old == json_loads(st[old_sha].data).value
         IN  WriteText(WriteText(st, new_sha, NewData(old, old_sha, new_sha)),
                       old_sha, Superseded(old, new_sha))

RECURSIVE RunLines(_, _)
RunLines(st, lines) ==
    IF lines = <<>> THEN st
    ELSE LET parts == Split(Head(lines))
         IN  RunLines(IF Len(parts) < 2 THEN st
                      ELSE ApplyPair(st, parts[1], parts[2]),
                      Tail(lines))

----------------------------------------------------------------------------
(* Properties *)

Keys(d) == {d[i][1] : i \in 1..Len(d)}
Rec(s) == json_loads(store[s].data)
Complete(s) == Rec(s).ok
AllHooksDone == \A h \in Hooks : pc[h] = "done"

\* C1: two commit hooks that write the sidecar file of one commit leave, in
\* every interleaving, exactly one complete record in it (the output of one
\* of them), and a hook that fails to take the lock has cut nothing from the
\* file.
C1_OneCompleteRecord ==
    /\ \A h \in hist.lost : h \notin hist.truncated
    /\ AllHooksDone =>
          \A s \in Shas :
             hist.firstLock[s] # NoHook =>
                \E h \in Hooks :
                   /\ sha[h] = s
                   /\ sidecar[h] # <<>>
                   /\ store[s].data = Output(sidecar[h])

\* C2: whenever a record A has superseded_by = B, the record file of B is
\* there and its rewritten_from is A.
C2_PointerPair ==
    \A a \in Shas :
       (Complete(a) /\ Has(Rec(a).value, K_by)) =>
          \E b \in Shas :
             /\ Get(Rec(a).value, K_by) = <<b>>
             /\ Complete(b)
             /\ GetOr(Rec(b).value, K_from) = <<a>>

\* C3: a record file, once created, keeps every field it was created with;
\* the only field ever added to it is superseded_by.
C3_FieldsFixedAtCreation ==
    \A s \in Shas :
       (hist.created[s] # <<>> /\ Complete(s)) =>
          /\ \A k \in Keys(hist.created[s]) \ {K_by} :
                /\ Has(Rec(s).value, k)
                /\ Get(Rec(s).value, k) = Get(hist.created[s], k)
          /\ Keys(Rec(s).value) \subseteq Keys(hist.created[s]) \cup {K_by}

\* C4: every invocation of the commit hook and of the propagator that has
\* ended has ended with exit status 0.
C4_AlwaysExitZero ==
    /\ \A h \in Hooks : pc[h] = "done" => exitCode[h] = 0
    /\ ppc = "done" => pexit = 0

\* C5: after the pair (A, B), A # B, has been applied to a record A that had
\* no rewritten_from: file B holds commit_sha = B and rewritten_from = A,
\* file A holds superseded_by = B, every other field of A is in B with A's
\* value, and every other field of A is as it was.
C5_SinglePair ==
    LET a == pair[1]
        b == pair[2]
        before == json_loads(hist.pre[a].data)
    IN  (/\ hist.applied
         /\ a # b
         /\ before.ok
         /\ ~Has(before.value, K_from)) =>
           /\ Complete(b)
           /\ GetOr(Rec(b).value, K_sha) = <<b>>
           /\ GetOr(Rec(b).value, K_from) = <<a>>
           /\ Keys(Rec(b).value) = Keys(before.value) \cup {K_from}
           /\ \A k \in Keys(before.value) \ {K_sha, K_from} :
                 Get(Rec(b).value, k) = Get(before.value, k)
           /\ Complete(a)
           /\ GetOr(Rec(a).value, K_by) = <<b>>
           /\ Keys(Rec(a).value) = Keys(before.value) \cup {K_by}
           /\ \A k \in Keys(before.value) \ {K_by} :
                 Get(Rec(a).value, k) = Get(before.value, k)

C5_Witness ==
    /\ hist.applied
    /\ pair = <<"A", "B">>
    /\ json_loads(hist.pre["A"].data).ok
    /\ ~Has(json_loads(hist.pre["A"].data).value, K_from)
    /\ ~hist.pre["B"].exists
    /\ Complete("B")
    /\ GetOr(Rec("B").value, K_from) = <<"A">>

\* C6: a run that reads (A,B) then (B,C) from a store holding only record A,
\* and meets no I/O error, ends with A.superseded_by = B, B.rewritten_from =
\* A, B.superseded_by = C and C.rewritten_from = B.
ChainRun ==
    /\ hist.store0 = [EmptyStore EXCEPT !["A"] = Committed("A")]
    /\ hist.stdin0 = <<PairLine("A", "B"), PairLine("B", "C")>>
    /\ ppc = "done"
    /\ stdin = <<>>
    /\ ~hist.ioerror

C6_Chain ==
    ChainRun =>
       /\ Complete("A") /\ Complete("B") /\ Complete("C")
       /\ GetOr(Rec("A").value, K_by) = <<"B">>
       /\ GetOr(Rec("B").value, K_from) = <<"A">>
       /\ GetOr(Rec("B").value, K_by) = <<"C">>
       /\ GetOr(Rec("C").value, K_from) = <<"B">>

C6_Witness == ChainRun /\ Complete("C")

\* C7: when all the commit hooks that targeted one sidecar file have ended,
\* the file holds the record of the first of them to take the lock.
C7_FirstWriterWins ==
    AllHooksDone =>
       \A s \in Shas :
          hist.firstLock[s] # NoHook =>
             store[s].data = Output(sidecar[hist.firstLock[s]])

\* C8: a read of a sidecar file taken while a commit hook has the file open
\* for writing sees a complete record, never an empty or partial file.
C8_ReadSeesCompleteRecord ==
    (hist.read.taken /\ hist.read.writing) => json_loads(hist.read.data).ok

\* C9: once install_post_rewrite_hook has run, running it again leaves the
\* script as it is, from every starting script; and from a starting script
\* that holds the marker and the invocation never or once each, the script
\* holds each exactly once after any number of runs.
C9_InstallIdempotent ==
    /\ [][hist.installs >= 1 => hookFile' = hookFile]_vars
    /\ [](LET m0 == Count(POST_REWRITE_MARKER, hist.hook0.data)
              i0 == Count(hook_invocation, hist.hook0.data)
          IN  (hist.installs >= 1 /\ m0 = i0 /\ m0 <= 1) =>
                 /\ Count(POST_REWRITE_MARKER, hookFile.data) = 1
                 /\ Count(hook_invocation, hookFile.data) = 1)

C9_Witness ==
    /\ hist.installs >= 2
    /\ hist.hook0.exists
    /\ hist.hook0.data # <<>>
    /\ MarkerAbsent(hist.hook0.data)
    /\ Count(POST_REWRITE_MARKER, hookFile.data) = 1

\* C10: a call on a script that lacks the marker appends the marker line and
\* the invocation line and nothing else; no call changes or removes what a
\* script held: the old content is a prefix of the new.
C10_AppendOnly ==
    [][hookFile.exists =>
          /\ hookFile'.exists
          /\ IsPrefix(hookFile.data, hookFile'.data)
          /\ hookFile'.data # hookFile.data =>
                /\ MarkerAbsent(hookFile.data)
                /\ hookFile'.data =
                      hookFile.data \o <<LF, POST_REWRITE_MARKER, LF,
                                         hook_invocation, LF>>]_vars

C10_Witness ==
    /\ hist.installs = 1
    /\ hist.hook0.exists
    /\ hist.hook0.data = <<Shebang, LF, OtherText>>
    /\ hookFile.data # hist.hook0.data

\* C11: a pair whose old_id has no record file changes nothing: the files of
\* the sidecar directory and their contents are what they were when the line
\* was read.
C11_MissingOldIsNoOp ==
    (pair # <<"", "">> /\ ~hist.pre[pair[1]].exists) => store = hist.pre

C11_Witness ==
    /\ pair = <<"B", "C">>
    /\ ~hist.pre["B"].exists
    /\ hist.pre["A"].exists
    /\ ppc = "next"
    /\ stdin = <<>>

\* The lines of a stream, those numbered in skip left out
RECURSIVE Without(_, _, _)
Without(lines, skip, n) ==
    IF lines = <<>> THEN <<>>
    ELSE (IF n \in skip THEN <<>> ELSE <<Head(lines)>>)
         \o Without(Tail(lines), skip, n + 1)

RunEnded == ppc = "done" /\ hist.entered

\* C12: a pair whose handling raises (decode or I/O failure) is skipped and
\* the run goes on: at its end the store is what the same stream without the
\* failing pairs leaves.
C12_FailingPairSkipped ==
    RunEnded =>
       /\ stdin = <<>>
       /\ store = RunLines(hist.store0, Without(hist.stdin0, hist.failed, 1))

\* C13: a line with fewer than two tokens changes no file and does not end
\* the run: when no I/O call fails, the run reads every line and leaves the
\* store that the stream without those lines leaves.
WellFormed(lines) == SelectSeq(lines, LAMBDA l : Len(Split(l)) >= 2)

C13_MalformedLinesIgnored ==
    /\ (pair = <<"", "">> /\ ppc # "start") => store = hist.store0
    /\ (RunEnded /\ ~hist.ioerror) =>
          /\ stdin = <<>>
          /\ store = RunLines(hist.store0, WellFormed(hist.stdin0))

C13_Witness ==
    /\ RunEnded
    /\ ~hist.ioerror
    /\ hist.stdin0 = << <<"A">>, PairLine("A", "B") >>
    /\ ~hist.store0["B"].exists
    /\ Complete("B")

\* The task files of a store that hold a JSON value, in discovery order
RECURSIVE Decodable(_)
Decodable(teams) ==
    IF teams = <<>> THEN <<>>
    ELSE (IF Head(teams).isdir
          THEN SelectSeq(Head(teams).files,
                         LAMBDA f : f.kind \notin {"malformed", "unreadable"})
          ELSE <<>>) \o Decodable(Tail(teams))

\* C14: the task snapshot collection never raises; a missing tasks directory
\* gives two empty lists; unreadable and malformed task files, and files whose
\* JSON is not an object, are skipped while the remaining files are collected,
\* and task_references and task_dumps stay parallel (same length, same
\* task_id and team_name at each index).
C14_TolerantCollector ==
    \A h \in Hooks : pc[h] = "collect" =>
        LET t == CollectTasks(tasksDir)
            objects == IF tasksDir.isdir
                       THEN SelectSeq(Decodable(tasksDir.teams),
                                      LAMBDA f : f.kind # "nonobject")
                       ELSE <<>>
        IN  /\ ~t.raised
            /\ ~tasksDir.isdir => t.refs = <<>> /\ t.dumps = <<>>
            /\ Len(t.refs) = Len(t.dumps)
            /\ \A i \in 1..Len(t.refs) :
                  /\ i <= Len(t.dumps)
                  /\ t.dumps[i].task_id = t.refs[i].task_id
                  /\ t.dumps[i].team_name = t.refs[i].team_name
            /\ [i \in 1..Len(t.refs) |-> t.refs[i].task_id]
                  = [i \in 1..Len(objects) |-> objects[i].stem]

\* C15: within one commit-hook invocation the steps run in the order collect,
\* write, install: the writer starts with a collected sidecar, the installer
\* is reached only from the close of a fully written file with the lock
\* released, a hook whose write aborted (lock taken, I/O error) ends without
\* touching the hook script, and the installer, failing or not, leaves the
\* sidecar files as they are.
C15_CollectWriteInstall ==
    [][/\ \A h \in Hooks :
            /\ (pc'[h] = "open" /\ pc[h] # "open") =>
                  pc[h] = "mkdir" /\ sidecar[h] # <<>>
            /\ (pc'[h] = "git_dir" /\ pc[h] # "git_dir") =>
                  /\ pc[h] = "close"
                  /\ flushed'[h] = Len(Output(sidecar[h]))
                  /\ locks[sha[h]] # h
                  /\ h \notin hist.lost
            /\ (pc'[h] = "install" /\ pc[h] # "install") => pc[h] = "git_dir"
            /\ (pc[h] = "install" /\ pc'[h] # "install") =>
                  pc'[h] = "done" /\ store' = store
            /\ (pc[h] \in {"open", "flock"} /\ pc'[h] = "done") =>
                  hookFile' = hookFile
       /\ hookFile' # hookFile =>
             \E h \in Hooks : /\ pc[h] = "install"
                              /\ pc'[h] = "done"
                              /\ h \notin hist.lost
                              /\ store' = store]_vars

\* One hook has written its record and installed the script, the other one
\* lost the lock and ended
C15_Witness ==
    /\ pc["h1"] = "done" /\ pc["h2"] = "done"
    /\ hist.lost = {"h2"}
    /\ hookFile = CreatedScript /\ hist.hook0 = NoScript
    /\ sidecar["h1"] # <<>>
    /\ flushed["h1"] = Len(Output(sidecar["h1"]))

\* The propagator stands between two pairs or has ended
BetweenPairs == ppc \in {"next", "done"}

\* The value of pointer field k in the record of s, "" when there is none
Pointer(s, k) ==
    IF s \in Shas /\ Complete(s) /\ Has(Rec(s).value, k) /\ Len(Get(Rec(s).value, k)) = 1
    THEN Get(Rec(s).value, k)[1]
    ELSE ""

\* C16: after any sequence of rewrite pairs the lineage is a linked list: no
\* two distinct records have the same rewritten_from, and no two distinct
\* records have the same superseded_by.
C16_LinkedList ==
    BetweenPairs =>
        \A a, b \in Shas :
            a # b =>
               /\ Pointer(a, K_from) # "" => Pointer(a, K_from) # Pointer(b, K_from)
               /\ Pointer(a, K_by) # "" => Pointer(a, K_by) # Pointer(b, K_by)

\* C19: the lineage is acyclic after any sequence of rewrite pairs: no record
\* has superseded_by or rewritten_from equal to its own commit_sha, and
\* following superseded_by from a record never comes back to it.
C19_Acyclic ==
    BetweenPairs =>
        \A a \in Shas :
            /\ Pointer(a, K_by) # a
            /\ Pointer(a, K_from) # a
            /\ Pointer(Pointer(a, K_by), K_by) # a
            /\ Pointer(Pointer(Pointer(a, K_by), K_by), K_by) # a

\* C20: a rewrite pair (old, new) with old # new is applied all-or-nothing:
\* once it has been handled, either the new record carries rewritten_from =
\* old and the old record carries superseded_by = new, or no file has changed
\* since the pair was read.
C20_AllOrNothing ==
    (BetweenPairs /\ pair # <<"", "">> /\ pair[1] # pair[2]) =>
        \/ /\ Pointer(pair[2], K_from) = pair[1]
           /\ Pointer(pair[1], K_by) = pair[2]
        \/ store = hist.pre

\* C17: no operation of the core removes a sidecar record: over every step of
\* commit hooks and propagator a record file that exists goes on existing, and
\* a record readable as a complete record stays readable as a complete record.
C17_NeverRemoved ==
    [][\A s \in Shas :
          /\ store[s].exists => store'[s].exists
          /\ json_loads(store[s].data).ok => json_loads(store'[s].data).ok]_vars

\* C18: in every reachable state each record <sha>.json that can be read
\* stores commit_sha equal to the <sha> of its file name, after any sequence
\* of commit-hook writes and rewrite pairs.
C18_ShaMatchesFileName ==
    \A s \in Shas :
        Complete(s) =>
            /\ Has(Rec(s).value, K_sha)
            /\ Get(Rec(s).value, K_sha) = <<s>>

\* The pair A B has been applied over a record B that a commit hook wrote
C18_Witness ==
    /\ hist.applied /\ pair = <<"A", "B">>
    /\ hist.pre["B"].exists /\ json_loads(hist.pre["B"].data).ok
    /\ sha["h1"] = "B"
    /\ Pointer("B", K_from) = "A"
====
